---- MODULE Spec2Model ----
(***************************************************************************)
(* Model of swc-plugin-import-glob-array: the ImportGlobArrayPlugin fold   *)
(* (src/src/lib.rs) and its helpers (src/src/utils.rs).                    *)
(*                                                                         *)
(* Text (String, PathBuf) is a sequence of one-character strings, so that  *)
(* starts_with, join, strip_prefix and format! are computed rather than    *)
(* assumed.  The token "BAD" stands for a byte sequence that is not valid  *)
(* UTF-8, and the token "_importMeta" for that identifier.                 *)
(***************************************************************************)
EXTENDS Integers, Sequences, FiniteSets, TLC

VARIABLES
    cwd,         \* ImportGlobArrayPlugin.cwd
    filename,    \* ImportGlobArrayPlugin.filename
    id_counter,  \* ImportGlobArrayPlugin.id_counter
    body,        \* items of module.body consumed so far by fold_module
    fsLog,       \* per consumed item: what the filesystem enumeration returned
    spans,       \* per consumed item: the Vec the flat_map closure returned
    out,         \* the new module.body collected from them
    pos2,        \* second pass over the same module: items consumed
    out2,        \* second pass: collected body
    counter2,    \* second pass: its plugin's id_counter
    cells,       \* counter cells of several plugin instances
    idlog,       \* per plugin instance: the identifiers next_id returned
    gp_path,     \* get_paths: the matched path handed in
    gp_called,   \* get_paths has been called
    gp_result    \* get_paths: what it returned

vars == <<cwd, filename, id_counter, body, fsLog, spans, out,
          pos2, out2, counter2, cells, idlog, gp_path, gp_called, gp_result>>

mainVars == <<cwd, filename, id_counter, body, fsLog, spans, out>>
rerunVars == <<pos2, out2, counter2>>
idVars == <<cells, idlog>>
gpVars == <<gp_path, gp_called, gp_result>>

----------------------------------------------------------------------------
(* Bounds *)

MaxWork == 4       \* items of module.body plus files enumerated for them
MaxCalls == 12     \* next_id calls per plugin instance

----------------------------------------------------------------------------
(* Option<T> *)

None == [some |-> FALSE]
Some(v) == [some |-> TRUE, val |-> v]

----------------------------------------------------------------------------
(* Text *)

starts_with(s, c) == Len(s) >= 1 /\ s[1] = c

DigitChars == <<"0", "1", "2", "3", "4", "5", "6", "7", "8", "9">>

(* Display of a usize: its decimal digits *)
RECURSIVE Digits(_)
Digits(n) ==
    IF n < 10 THEN <<DigitChars[n + 1]>>
    ELSE Digits(n \div 10) \o <<DigitChars[(n % 10) + 1]>>

(* to_str(): None when the OS string is not valid UTF-8 *)
to_str(p) == IF \E i \in 1..Len(p) : p[i] = "BAD" THEN None ELSE Some(p)

----------------------------------------------------------------------------
(* std::path *)

(* the components of a path: the text between separators *)
RECURSIVE SplitPath(_, _, _)
SplitPath(s, cur, acc) ==
    IF s = <<>>
    THEN IF cur = <<>> THEN acc ELSE Append(acc, cur)
    ELSE IF Head(s) = "/"
         THEN SplitPath(Tail(s), <<>>, IF cur = <<>> THEN acc ELSE Append(acc, cur))
         ELSE SplitPath(Tail(s), Append(cur, Head(s)), acc)

(* Path::components: "." is kept only as the first component of a relative path *)
components(p) ==
    LET raw == SplitPath(p, <<>>, <<>>)
        isAbs == starts_with(p, "/")
        keep == {i \in 1..Len(raw) : raw[i] # <<".">> \/ (i = 1 /\ ~isAbs)}
        RECURSIVE Pick(_)
        Pick(i) == IF i > Len(raw) THEN <<>>
                   ELSE (IF i \in keep THEN <<raw[i]>> ELSE <<>>) \o Pick(i + 1)
    IN  [abs |-> isAbs, comps |-> Pick(1)]

RECURSIVE JoinComps(_)
JoinComps(cs) ==
    IF cs = <<>> THEN <<>>
    ELSE IF Len(cs) = 1 THEN cs[1]
    ELSE cs[1] \o <<"/">> \o JoinComps(Tail(cs))

(* Path::join: an absolute argument replaces the path *)
join(p, q) ==
    IF starts_with(q, "/") THEN q
    ELSE IF p = <<>> THEN q
    ELSE IF p[Len(p)] = "/" THEN p \o q
    ELSE p \o <<"/">> \o q

(* Path::parent: the path without its final component *)
parent(p) ==
    LET c == components(p)
        n == Len(c.comps)
    IN  IF n = 0 THEN None
        ELSE Some((IF c.abs THEN <<"/">> ELSE <<>>) \o JoinComps(SubSeq(c.comps, 1, n - 1)))

(* Path::strip_prefix: component-wise; the rest of the path on success *)
strip_prefix(p, base) ==
    LET c == components(p)
        b == components(base)
        n == Len(b.comps)
    IN  IF /\ c.abs = b.abs
           /\ Len(c.comps) >= n
           /\ SubSeq(c.comps, 1, n) = b.comps
        THEN Some(JoinComps(SubSeq(c.comps, n + 1, Len(c.comps))))
        ELSE None

----------------------------------------------------------------------------
(* ImportGlobArrayPlugin::get_paths *)

ImportPaths(a, i) == [absolute_path |-> a, imported_path |-> i]

get_paths_dir(c, f) == join(c, parent(f).val)

get_paths_keep_unstripped(c, f, path) ==
    LET current_dir == get_paths_dir(c, f)
        stripped == strip_prefix(path, current_dir)
        relative_path == IF stripped.some THEN stripped.val ELSE path
    IN  IF ~to_str(relative_path).some THEN None
        ELSE LET absolute == to_str(join(current_dir, relative_path))
             IN  IF ~absolute.some THEN None
                 ELSE Some(ImportPaths(absolute.val,
                        IF starts_with(relative_path, ".")
                        THEN relative_path
                        ELSE <<".", "/">> \o relative_path))

get_paths(c, f, path) ==
    LET current_dir == get_paths_dir(c, f)
        stripped == strip_prefix(path, current_dir)
    IN  IF ~stripped.some THEN None
        ELSE IF ~to_str(stripped.val).some THEN None
        ELSE LET relative_path == stripped.val
                 absolute == to_str(join(current_dir, relative_path))
             IN  IF ~absolute.some THEN None
                 ELSE Some(ImportPaths(absolute.val,
                        IF starts_with(relative_path, ".")
                        THEN relative_path
                        ELSE <<".", "/">> \o relative_path))

----------------------------------------------------------------------------
(* ImportGlobArrayPlugin::next_id: take() empties the cell and hands back   *)
(* its value; the value plus one is stored and then formatted.             *)

next_id_reads_emptied_cell(counter, starting_id) ==
    LET emptied == 0
        stored == emptied + 1
    IN  [counter |-> stored, id |-> starting_id \o Digits(stored)]

next_id(counter, starting_id) ==
    LET taken == counter
        stored == taken + 1
    IN  [counter |-> stored, id |-> starting_id \o Digits(stored)]

(* ImportGlobArrayPlugin::new: the plugin's own Rc<RefCell<usize>>, at 0 *)
new_shared_cell(plugin) == 1

new(plugin) == plugin

----------------------------------------------------------------------------
(* Syntax tree *)

IMPORT_META_NAME == <<"_importMeta">>

Ident(sym) == [form |-> "Ident", sym |-> sym]
Str(sym) == [form |-> "Str", sym |-> sym]

DefaultSpecifier(local) == [kind |-> "default", local |-> local, imported |-> None]
NamespaceSpecifier(local) == [kind |-> "namespace", local |-> local, imported |-> None]
NamedSpecifier(local, imported) == [kind |-> "named", local |-> local, imported |-> imported]

ImportDecl(src, specifiers) ==
    [type |-> "import", src |-> src, specifiers |-> specifiers,
     name |-> <<>>, elems |-> <<>>]

VarDecl(name, elems) ==
    [type |-> "const", src |-> <<>>, specifiers |-> <<>>,
     name |-> name, elems |-> elems]

OtherStmt(name) ==
    [type |-> "stmt", src |-> <<>>, specifiers |-> <<>>,
     name |-> name, elems |-> <<>>]

IdentExpr(sym) == [expr |-> "Ident", sym |-> sym, props |-> <<>>]

----------------------------------------------------------------------------
(* utils.rs *)

get_import_map_expr(import_paths) ==
    [expr |-> "Object", sym |-> <<>>,
     props |-> << [key |-> "absolutePath", value |-> import_paths.absolute_path],
                  [key |-> "importedPath", value |-> import_paths.imported_path] >>]

get_local_specifier_name(specifier) == specifier.local

is_specifier_import_meta_decl(specifier) ==
    IF specifier.kind # "named" THEN None
    ELSE IF ~specifier.imported.some THEN None
    ELSE Some(specifier.imported.val.sym = IMPORT_META_NAME)

EmptyMap == [k \in {} |-> <<>>]

upsert_map_overwrites(map, key, value) ==
    [k \in DOMAIN map \cup {key} |-> IF k = key THEN <<Some(value)>> ELSE map[k]]

upsert_map(map, key, value) ==
    LET inited == IF key \in DOMAIN map THEN map
                  ELSE [k \in DOMAIN map \cup {key} |->
                          IF k = key THEN <<>> ELSE map[k]]
    IN  [inited EXCEPT ![key] = Append(@, Some(value))]

(* The orders in which HashMap::into_iter may hand out the entries of map *)
IterationOrders(map) ==
    {o \in [1..Cardinality(DOMAIN map) -> DOMAIN map] :
        \A i, j \in DOMAIN o : o[i] = o[j] => i = j}

to_var_decls(map, order) ==
    [i \in 1..Len(order) |-> VarDecl(order[i], map[order[i]])]

----------------------------------------------------------------------------
(* Declaration synthesis and aggregation (transform_import_decl) *)

ID_PREFIX == <<"_", "g">>

(* a specifier asks for metadata when the check answers Some(true) *)
wants_import_meta(specifier) ==
    is_specifier_import_meta_decl(specifier) = Some(TRUE)

(* the generated import binds the file under the fresh identifier, in the  *)
(* way the statement's first value specifier binds                         *)
synthetic_import(decl, id, import_paths) ==
    LET values == SelectSeq(decl.specifiers, LAMBDA sp : ~wants_import_meta(sp))
        kind == IF values = <<>> \/ values[1].kind = "named" THEN "default"
                ELSE values[1].kind
    IN  ImportDecl(import_paths.imported_path,
                   <<[kind |-> kind, local |-> id, imported |-> None]>>)

(* one slot per specifier of the statement, for one matched file *)
RECURSIVE add_slots(_, _, _, _)
add_slots(specifiers, id, import_paths, maps) ==
    IF specifiers = <<>> THEN maps
    ELSE LET sp == Head(specifiers)
             key == get_local_specifier_name(sp)
         IN  add_slots(Tail(specifiers), id, import_paths,
               IF wants_import_meta(sp)
               THEN [maps EXCEPT !.metas =
                       upsert_map(@, key, get_import_map_expr(import_paths))]
               ELSE [maps EXCEPT !.values =
                       upsert_map(@, key, IdentExpr(id))])

(* one matched file whose paths resolved: a fresh identifier, the import   *)
(* under it, and the slots                                                 *)
expand_resolved(decl, acc, import_paths, fresh) ==
    LET maps == add_slots(decl.specifiers, fresh.id, import_paths,
                          [values |-> acc.values, metas |-> acc.metas])
    IN  [counter |-> fresh.counter,
         imports |-> Append(acc.imports, synthetic_import(decl, fresh.id, import_paths)),
         values |-> maps.values,
         metas |-> maps.metas]

(* one matched file: skipped when its paths cannot be resolved *)
expand_file(decl, acc, import_paths) ==
    IF ~import_paths.some THEN acc
    ELSE expand_resolved(decl, acc, import_paths.val, next_id(acc.counter, ID_PREFIX))

(* the matched files in enumeration order *)
RECURSIVE expand_files(_, _, _, _, _)
expand_files(c, f, decl, files, acc) ==
    IF files = <<>> THEN acc
    ELSE expand_files(c, f, decl, Tail(files),
                      expand_file(decl, acc, get_paths(c, f, Head(files))))

expansion(c, f, counter, decl, enumeration) ==
    IF ~enumeration.some
    THEN [counter |-> counter, imports |-> <<>>,
          values |-> EmptyMap, metas |-> EmptyMap]
    ELSE expand_files(c, f, decl, enumeration.val,
                      [counter |-> counter, imports |-> <<>>,
                       values |-> EmptyMap, metas |-> EmptyMap])

(* the result for one statement, e being the expansion of its enumeration: *)
(* None when the pattern could not be enumerated at all                    *)
transform_import_decl(enumeration, e, valueOrder, metaOrder) ==
    [counter |-> e.counter,
     tuple |-> IF ~enumeration.some THEN None
               ELSE Some(<<e.imports,
                           to_var_decls(e.values, valueOrder),
                           to_var_decls(e.metas, metaOrder)>>)]

----------------------------------------------------------------------------
(* lib.rs: build_module_items and fold_module *)

build_module_items_meta_first(tuple) ==
    IF tuple.some
    THEN tuple.val[1] \o tuple.val[3] \o tuple.val[2]
    ELSE <<>>

build_module_items_without_metas(tuple) ==
    IF tuple.some
    THEN tuple.val[1] \o tuple.val[2]
    ELSE <<>>

build_module_items(tuple) ==
    IF tuple.some
    THEN tuple.val[1] \o tuple.val[2] \o tuple.val[3]
    ELSE <<>>

(* is_glob of the is-glob crate, on the alphabet used here *)
is_glob(s) == \E i \in 1..Len(s) : s[i] \in {"*", "?"}

(* the guard of the first match arm of fold_module *)
qualifies_any_import(item) ==
    item.type = "import"

qualifies(item) ==
    /\ item.type = "import"
    /\ (starts_with(item.src, ".") \/ starts_with(item.src, "/"))
    /\ is_glob(item.src)

(* the closure handed to flat_map *)
fold_item_retains_unmatched(item, tuple) ==
    IF qualifies(item)
    THEN IF build_module_items(tuple) = <<>> THEN <<item>>
         ELSE build_module_items(tuple)
    ELSE <<item>>

fold_item(item, tuple) ==
    IF qualifies(item) THEN build_module_items(tuple) ELSE <<item>>

----------------------------------------------------------------------------
(* Filesystem enumeration of a glob pattern *)

(* PathBuf::with_file_name *)
with_file_name(p, name) ==
    IF parent(p).some THEN join(parent(p).val, name) ELSE name

as_glob_path(c, f, pattern) == with_file_name(join(c, f), pattern)

(* a pattern component "*" matches any one component, any other only itself *)
glob_matches(patternPath, file) ==
    LET pc == components(patternPath)
        fc == components(file)
    IN  /\ pc.abs = fc.abs
        /\ Len(pc.comps) = Len(fc.comps)
        /\ \A i \in 1..Len(pc.comps) :
              pc.comps[i] = <<"*">> \/ pc.comps[i] = fc.comps[i]

(* the files that exist *)
Files ==
    { <<"/", "w", "/", "s", "/", "a">>,
      <<"/", "w", "/", "s", "/", "b">>,
      <<"/", "w", "/", "s", "/", "BAD">>,
      <<"/", "a">> }

(* Pattern::new rejects a run of three or more wildcards *)
glob_pattern_ok(pattern) ==
    ~\E i \in 1..(Len(pattern) - 2) : SubSeq(pattern, i, i + 2) = <<"*", "*", "*">>

(* what enumerating decl's pattern may return: nothing at all for a        *)
(* pattern that is rejected, else the matching files in some order, at     *)
(* most room of them                                                       *)
Enumerations(c, f, decl, room) ==
    LET matching == {file \in Files : glob_matches(as_glob_path(c, f, decl.src), file)}
        lists == UNION {[1..n -> matching] : n \in 0..room}
    IN  IF ~glob_pattern_ok(decl.src) THEN {None}
        ELSE {Some(l) : l \in {m \in lists : \A i, j \in DOMAIN m : m[i] = m[j] => i = j}}

----------------------------------------------------------------------------
(* Inputs *)

PluginConfigs ==
    { [cwd |-> <<"/", "w">>, filename |-> <<"s", "/", "i">>] }

ValueAndMeta ==
    <<NamedSpecifier(<<"a">>, Some(Ident(<<"x">>))),
      NamedSpecifier(<<"m">>, Some(Ident(IMPORT_META_NAME)))>>

TwoValues == <<DefaultSpecifier(<<"a">>), NamespaceSpecifier(<<"b">>)>>

BareAndQuotedMeta ==
    <<NamedSpecifier(IMPORT_META_NAME, None),
      NamedSpecifier(<<"n">>, Some(Str(IMPORT_META_NAME)))>>

GlobImports ==
    { ImportDecl(<<".", "/", "*">>, ValueAndMeta),
      ImportDecl(<<".", "/", "*">>, TwoValues),
      ImportDecl(<<".", "/", "*">>, BareAndQuotedMeta),
      ImportDecl(<<"/", "*">>, ValueAndMeta),
      ImportDecl(<<".", "/", "*", "*", "*">>, ValueAndMeta) }

OtherItems ==
    { OtherStmt(<<"s">>),
      ImportDecl(<<".", "/", "x">>, <<DefaultSpecifier(<<"a">>)>>),
      ImportDecl(<<"x", "*">>, <<DefaultSpecifier(<<"a">>)>>) }

Items == GlobImports \cup OtherItems

RECURSIVE Enumerated(_)
Enumerated(log) ==
    IF log = <<>> THEN 0
    ELSE (IF Head(log).some THEN Len(Head(log).val) ELSE 0) + Enumerated(Tail(log))

Work == Len(body) + Enumerated(fsLog)

----------------------------------------------------------------------------
(* fold_module, one item of module.body at a time: after each step out is  *)
(* the body fold_module returns for the module made of the items consumed  *)

FoldStep(item, enumeration, t) ==
    /\ body' = Append(body, item)
    /\ fsLog' = Append(fsLog, enumeration)
    /\ spans' = Append(spans, fold_item(item, t.tuple))
    /\ out' = out \o fold_item(item, t.tuple)
    /\ id_counter' = IF qualifies(item) THEN t.counter ELSE id_counter

FoldExpanded(item, enumeration, e) ==
    \E valueOrder \in IterationOrders(e.values),
       metaOrder \in IterationOrders(e.metas) :
        FoldStep(item, enumeration,
                 transform_import_decl(enumeration, e, valueOrder, metaOrder))

FoldItem ==
    /\ pos2 = 0
    /\ Work < MaxWork
    /\ \E item \in Items :
        \E enumeration \in (IF qualifies(item)
                            THEN Enumerations(cwd, filename, item, MaxWork - Work - 1)
                            ELSE {None}) :
            FoldExpanded(item, enumeration,
                         expansion(cwd, filename, id_counter, item, enumeration))
    /\ UNCHANGED <<cwd, filename>>
    /\ UNCHANGED <<rerunVars, idVars, gpVars>>

(* a second invocation on the same module (the items consumed by the       *)
(* first) and the same filesystem state                                    *)
RefoldStep(item, t) ==
    /\ out2' = out2 \o fold_item(item, t.tuple)
    /\ counter2' = IF qualifies(item) THEN t.counter ELSE counter2
    /\ pos2' = pos2 + 1

RefoldExpanded(item, enumeration, e) ==
    \E valueOrder \in IterationOrders(e.values),
       metaOrder \in IterationOrders(e.metas) :
        RefoldStep(item, transform_import_decl(enumeration, e, valueOrder, metaOrder))

Refold ==
    /\ pos2 < Len(body)
    /\ RefoldExpanded(body[pos2 + 1], fsLog[pos2 + 1],
                      expansion(cwd, filename, counter2, body[pos2 + 1], fsLog[pos2 + 1]))
    /\ UNCHANGED <<mainVars, idVars, gpVars>>

(* one call of next_id on plugin instance p *)
NextId(p) ==
    /\ Len(idlog[p]) < MaxCalls
    /\ LET r == next_id(cells[new(p)], ID_PREFIX)
       IN  /\ cells' = [cells EXCEPT ![new(p)] = r.counter]
           /\ idlog' = [idlog EXCEPT ![p] = Append(@, r.id)]
    /\ UNCHANGED <<mainVars, rerunVars, gpVars>>

(* one call of get_paths *)
GetPaths ==
    /\ ~gp_called
    /\ gp_called' = TRUE
    /\ gp_result' = get_paths(cwd, filename, gp_path)
    /\ UNCHANGED <<gp_path, mainVars, rerunVars, idVars>>

----------------------------------------------------------------------------
(* Specifications *)

Plugins == {1, 2}

PathInputs ==
    { <<"/", "w", "/", "s", "/", "a">>,
      <<"/", "w", "/", "s", "/", ".", "h">>,
      <<"/", "w", "/", "s", "/", ".", ".", "/", "a">>,
      <<"/", "w", "/", "s", "/", ".", ".", "h", "/", "a">>,
      <<"/", "w", "/", "s", "/", "d", "/", "a">>,
      <<"/", "w", "/", "s", "/", "d", "/", ".", "h">>,
      <<"/", "w", "/", "s", "/", "BAD">>,
      <<"/", "w", "/", "s", "a">>,
      <<"/", "w", "/", "a">>,
      <<"/", "w", "/", ".", "h">>,
      <<"/", "a">>,
      <<"s", "/", "a">> }

PathConfigs ==
    PluginConfigs \cup
    { [cwd |-> <<"/", "w", "/", "s">>, filename |-> <<"/", "w", "/", "s", "/", "i">>],
      [cwd |-> <<"/", "w">>, filename |-> <<"i">>],
      [cwd |-> <<"/">>, filename |-> <<"w", "/", "i">>],
      [cwd |-> <<"/", "w">>, filename |-> <<"s", "/", "d", "/", "i">>] }

InitRest ==
    /\ id_counter = 0
    /\ body = <<>>
    /\ fsLog = <<>>
    /\ spans = <<>>
    /\ out = <<>>
    /\ pos2 = 0
    /\ out2 = <<>>
    /\ counter2 = 0
    /\ cells = [p \in Plugins |-> 0]
    /\ idlog = [p \in Plugins |-> <<>>]
    /\ gp_called = FALSE
    /\ gp_result = None

Init ==
    /\ \E cfg \in PluginConfigs : cwd = cfg.cwd /\ filename = cfg.filename
    /\ gp_path = <<>>
    /\ InitRest

InitPaths ==
    /\ \E cfg \in PathConfigs : cwd = cfg.cwd /\ filename = cfg.filename
    /\ gp_path \in PathInputs
    /\ InitRest

Next == FoldItem

NextRerun == FoldItem \/ Refold

NextIds == \E p \in Plugins : NextId(p)

NextPaths == GetPaths

Spec == Init /\ [][Next]_vars

SpecRerun == Init /\ [][NextRerun]_vars

SpecIds == Init /\ [][NextIds]_vars

SpecPaths == InitPaths /\ [][NextPaths]_vars

----------------------------------------------------------------------------
(* Vocabulary of the properties *)

RECURSIVE Flatten(_)
Flatten(ss) == IF ss = <<>> THEN <<>> ELSE Head(ss) \o Flatten(Tail(ss))

Consumed == 1..Len(body)

(* a qualifying glob import, in the words of the design *)
IsGlobImport(item) ==
    /\ item.type = "import"
    /\ item.src # <<>>
    /\ item.src[1] \in {".", "/"}
    /\ \E i \in 1..Len(item.src) : item.src[i] \in {"*", "?"}

GlobStatements == {i \in Consumed : IsGlobImport(body[i])}

SpanImports(i) == SelectSeq(spans[i], LAMBDA it : it.type = "import")
SpanConsts(i) == SelectSeq(spans[i], LAMBDA it : it.type = "const")

IsValueAggregate(it) ==
    /\ it.type = "const"
    /\ it.elems # <<>>
    /\ \A k \in 1..Len(it.elems) : it.elems[k].some /\ it.elems[k].val.expr = "Ident"

IsMetaAggregate(it) ==
    /\ it.type = "const"
    /\ it.elems # <<>>
    /\ \A k \in 1..Len(it.elems) : it.elems[k].some /\ it.elems[k].val.expr = "Object"

DestinationPatterns(item) ==
    {item.specifiers[k].local : k \in 1..Len(item.specifiers)}

(* the components of the working directory joined with the current file's  *)
(* path (an absolute file path stands alone); the last one is the file     *)
CurrentDirComps ==
    IF filename[1] = "/" THEN components(filename).comps
    ELSE components(cwd \o <<"/">> \o filename).comps

(* the matched path can be expressed relative to the current directory and  *)
(* is valid text                                                           *)
Resolves(file) ==
    LET fc == components(file).comps
        n == Len(CurrentDirComps) - 1
    IN  /\ starts_with(file, "/")
        /\ Len(fc) >= n
        /\ \A k \in 1..n : fc[k] = CurrentDirComps[k]
        /\ \A k \in 1..Len(file) : file[k] # "BAD"

Resolved(i) == SelectSeq(fsLog[i].val, Resolves)

BaseName(file) == LET fc == components(file).comps IN fc[Len(fc)]

----------------------------------------------------------------------------
(* C1: every item that is not a qualifying glob import appears in the       *)
(* output unchanged, and these items keep their relative order: the output *)
(* is the concatenation, in input order, of one span per input item, and   *)
(* the span of a non-qualifying item is that item alone.                   *)
C1_PassThrough ==
    /\ out = Flatten(spans)
    /\ Len(spans) = Len(body)
    /\ \A i \in Consumed \ GlobStatements : spans[i] = <<body[i]>>

C1_Witness ==
    /\ \E i, j, k \in Consumed :
        /\ i < j /\ j < k
        /\ ~IsGlobImport(body[i]) /\ ~IsGlobImport(body[k])
        /\ body[i] # body[k]
        /\ body[k].type = "import"
        /\ IsGlobImport(body[j]) /\ spans[j] # <<>>

(* C2: a qualifying glob import is replaced at its own position by one      *)
(* contiguous span: the generated imports, then the value aggregate        *)
(* declarations, then the metadata aggregate declarations.                 *)
C2_SpanLayout ==
    /\ out = Flatten(spans)
    /\ \A i \in GlobStatements :
        \E k1, k2 \in 0..Len(spans[i]) :
            /\ k1 <= k2
            /\ \A k \in 1..k1 : spans[i][k].type = "import"
            /\ \A k \in (k1 + 1)..k2 : IsValueAggregate(spans[i][k])
            /\ \A k \in (k2 + 1)..Len(spans[i]) : IsMetaAggregate(spans[i][k])

C2_Witness ==
    /\ Len(body) = 3
    /\ 2 \in GlobStatements /\ 1 \notin GlobStatements /\ 3 \notin GlobStatements
    /\ Len(SpanImports(2)) = 1
    /\ \E k \in 1..Len(spans[2]) : IsValueAggregate(spans[2][k])
    /\ \E k \in 1..Len(spans[2]) : IsMetaAggregate(spans[2][k])

(* C3: within one invocation the k-th identifier handed out is the prefix   *)
(* followed by k, the counter equals the number of imports generated so    *)
(* far (it is never reset), and no two generated imports share a local     *)
(* identifier, also across several glob imports of the module.             *)
GeneratedLocals ==
    LET gen == Flatten([i \in Consumed |->
                          IF i \in GlobStatements THEN SpanImports(i) ELSE <<>>])
    IN  [k \in 1..Len(gen) |-> gen[k].specifiers[1].local]

C3_UniqueIds ==
    /\ Len(GeneratedLocals) = id_counter
    /\ \A k \in 1..Len(GeneratedLocals) : GeneratedLocals[k] = ID_PREFIX \o Digits(k)
    /\ \A k, l \in 1..Len(GeneratedLocals) :
          GeneratedLocals[k] = GeneratedLocals[l] => k = l

C3_Witness ==
    /\ id_counter >= 2
    /\ \E i, j \in GlobStatements :
          i # j /\ SpanImports(i) # <<>> /\ SpanImports(j) # <<>>

(* C4, as stated: a qualifying statement whose enumeration returns N files  *)
(* (N = 0 included) is replaced by exactly N generated imports plus one    *)
(* constant declaration per distinct destination binding pattern.          *)
C4_AsStated ==
    \A i \in GlobStatements :
        fsLog[i].some =>
            /\ Len(SpanImports(i)) = Len(fsLog[i].val)
            /\ Len(SpanConsts(i)) = Cardinality(DestinationPatterns(body[i]))
            /\ Len(spans[i]) = Len(SpanImports(i)) + Len(SpanConsts(i))

(* C4, amended: with N >= 1 the number of matched files whose paths         *)
(* resolve, the span holds exactly N generated imports plus one constant   *)
(* declaration per distinct destination binding pattern; with N = 0 the    *)
(* span is empty.                                                          *)
C4_Cardinality ==
    \A i \in GlobStatements :
        fsLog[i].some =>
            IF Len(Resolved(i)) >= 1
            THEN /\ Len(SpanImports(i)) = Len(Resolved(i))
                 /\ Len(SpanConsts(i)) = Cardinality(DestinationPatterns(body[i]))
                 /\ Len(spans[i]) = Len(SpanImports(i)) + Len(SpanConsts(i))
                 /\ \A k, l \in 1..Len(SpanConsts(i)) :
                       SpanConsts(i)[k].name = SpanConsts(i)[l].name => k = l
                 /\ {SpanConsts(i)[k].name : k \in 1..Len(SpanConsts(i))}
                       = DestinationPatterns(body[i])
            ELSE spans[i] = <<>>

C4_Witness ==
    /\ \E i \in GlobStatements :
        /\ fsLog[i].some
        /\ Len(Resolved(i)) = 2
        /\ Cardinality(DestinationPatterns(body[i])) = 2
        /\ Len(spans[i]) = 4

(* C5: running the pass again on the same module with the same filesystem   *)
(* enumeration yields identical output.                                    *)
C5_Reproducible ==
    pos2 = Len(body) => out2 = out

(* C6: a specifier is treated as a metadata request exactly when it is a    *)
(* named specifier importing the name _importMeta, renamed or not.         *)
IsMetaRequest(sp) ==
    /\ sp.kind = "named"
    /\ (IF sp.imported.some THEN sp.imported.val.sym ELSE sp.local) = IMPORT_META_NAME

C6_MetaRequest ==
    \A i \in GlobStatements :
        \A k \in 1..Len(body[i].specifiers) :
            LET sp == body[i].specifiers[k]
            IN  /\ IsMetaRequest(sp) <=> (is_specifier_import_meta_decl(sp) = Some(TRUE))
                /\ \A d \in 1..Len(spans[i]) :
                      (spans[i][d].type = "const" /\ spans[i][d].name = sp.local)
                      => (IsMetaRequest(sp) <=> IsMetaAggregate(spans[i][d]))

(* C7: on success importedPath is relativePath if that starts with '.',     *)
(* else "./" followed by relativePath; absolutePath is currentDir joined   *)
(* with relativePath; importedPath starts with '.' and is a relative       *)
(* module reference, never a bare module name.                             *)
IsRelativeReference(s) ==
    \/ s = <<".">>
    \/ s = <<".", ".">>
    \/ (Len(s) >= 2 /\ SubSeq(s, 1, 2) = <<".", "/">>)
    \/ (Len(s) >= 3 /\ SubSeq(s, 1, 3) = <<".", ".", "/">>)

C7_ImportedPath ==
    (gp_called /\ gp_result.some) =>
        LET n == Len(CurrentDirComps) - 1
            pc == components(gp_path).comps
            rel == JoinComps(SubSeq(pc, n + 1, Len(pc)))
            dir == <<"/">> \o JoinComps(SubSeq(CurrentDirComps, 1, n))
        IN  /\ gp_result.val.imported_path =
                  (IF rel # <<>> /\ rel[1] = "." THEN rel ELSE <<".", "/">> \o rel)
            /\ gp_result.val.absolute_path = dir \o <<"/">> \o rel
            /\ gp_result.val.imported_path[1] = "."
            /\ IsRelativeReference(gp_result.val.imported_path)

(* C8: every aggregate array of a statement holds one slot per matched file *)
(* whose paths resolve, in enumeration order, and none for a file whose    *)
(* resolution fails; such a file gets no generated import either, and the  *)
(* other files are expanded as usual.                                      *)
C8_SlotsFollowEnumeration ==
    \A i \in GlobStatements :
        fsLog[i].some =>
            LET good == Resolved(i)
                imps == SpanImports(i)
                decls == SpanConsts(i)
            IN  /\ Len(imps) = Len(good)
                /\ \A k \in 1..Len(imps) :
                      imps[k].src = <<".", "/">> \o BaseName(good[k])
                /\ \A d \in 1..Len(decls) :
                    /\ Len(decls[d].elems) = Len(good)
                    /\ \A k \in 1..Len(good) :
                        LET slot == decls[d].elems[k].val
                        IN  IF slot.expr = "Ident"
                            THEN slot.sym = imps[k].specifiers[1].local
                            ELSE /\ slot.props[1].value = good[k]
                                 /\ slot.props[2].value = imps[k].src

C8_Witness ==
    /\ \E i \in GlobStatements :
        /\ fsLog[i].some
        /\ Len(fsLog[i].val) = 2
        /\ ~Resolves(fsLog[i].val[1])
        /\ Resolves(fsLog[i].val[2])
        /\ Len(SpanImports(i)) = 1
        /\ \E d \in 1..Len(spans[i]) : IsMetaAggregate(spans[i][d])

(* C9: a qualifying glob import whose expansion yields no matched file, or  *)
(* no result at all, is removed: its span is empty, and the items around   *)
(* it stay in place.                                                       *)
C9_ZeroMatches ==
    /\ out = Flatten(spans)
    /\ \A i \in GlobStatements :
          (~fsLog[i].some \/ fsLog[i].val = <<>>) => spans[i] = <<>>

C9_Witness ==
    /\ Len(body) = 3
    /\ 2 \in GlobStatements /\ 1 \notin GlobStatements /\ 3 \notin GlobStatements
    /\ fsLog[2] = Some(<<>>)
    /\ out = <<body[1], body[3]>>

(* C10: under any interleaving of the next_id calls of two invocations,     *)
(* each invocation obtains prefix1, prefix2, ... as if it ran alone.       *)
C10_IndependentCounters ==
    \A p \in Plugins :
        \A k \in 1..Len(idlog[p]) : idlog[p][k] = ID_PREFIX \o Digits(k)

C10_Witness ==
    /\ Len(idlog[1]) >= 11
    /\ Len(idlog[2]) >= 2
    /\ Len(idlog[2]) < Len(idlog[1])

====
